---------------------------- MODULE Spec2Model ----------------------------
(* A model of the mini-rag backend: the FastAPI handlers of backend/main.py *)
(* over the two pipelines, backend/mock_rag_pipeline.py (demo mode) and     *)
(* backend/rag_pipeline.py (real mode).                                     *)
(*                                                                          *)
(* Text is a sequence of one-character strings, so that split, strip,      *)
(* lower and join are computed as Python computes them.                     *)
EXTENDS Integers, Sequences, FiniteSets, TLC

VARIABLES
    DEMO_MODE,        \* main.py: DEMO_MODE, fixed when the process starts
    retriever,        \* main.py: global retriever
    vectorstore,      \* main.py: global vectorstore
    mock_documents,   \* mock_rag_pipeline.py: global mock_documents
    mock_processed,   \* mock_rag_pipeline.py: global mock_processed
    upload_seq,       \* how many uploads have been indexed; names the real handles
    response,         \* the last HTTP response (or return value of a direct call)
    llm_context,      \* the documents in the prompt the LLM received last
    last_upload,      \* history: the request of the last upload answered 200
    pc,               \* position of a direct pipeline call sequence
    in_text,          \* argument of a direct call: the text
    in_query,         \* argument of a direct call: the query
    in_tokens         \* argument of a direct call: the three token counts

vars == <<DEMO_MODE, retriever, vectorstore, mock_documents, mock_processed,
          upload_seq, response, llm_context, last_upload, pc, in_text,
          in_query, in_tokens>>

-----------------------------------------------------------------------------
(* Python str operations on sequences of characters.                        *)

WhiteSpace == {" ", "\n", "\t", "\r"}

UpperCase == <<"A","B","C","D","E","F","G","H","I","J","K","L","M",
               "N","O","P","Q","R","S","T","U","V","W","X","Y","Z">>

LowerCase == <<"a","b","c","d","e","f","g","h","i","j","k","l","m",
               "n","o","p","q","r","s","t","u","v","w","x","y","z">>

Digits == <<"0","1","2","3","4","5","6","7","8","9">>

SetMin(S) == CHOOSE x \in S : \A y \in S : x <= y

SetMax(S) == CHOOSE x \in S : \A y \in S : y <= x

Range(s) == {s[i] : i \in 1..Len(s)}

\* str.lower() on one character
char_lower(c) ==
    IF \E i \in 1..Len(UpperCase) : UpperCase[i] = c
    THEN LowerCase[CHOOSE i \in 1..Len(UpperCase) : UpperCase[i] = c]
    ELSE c

\* str.lower()
str_lower(s) == [i \in 1..Len(s) |-> char_lower(s[i])]

\* str.strip(): leading and trailing whitespace removed
str_strip(s) ==
    LET keep == {i \in 1..Len(s) : s[i] \notin WhiteSpace}
    IN  IF keep = {} THEN <<>> ELSE SubSeq(s, SetMin(keep), SetMax(keep))

\* str.find(sep): the first index where sep occurs, 0 when it does not
str_find(s, sep) ==
    LET hits == {i \in 1..(Len(s) - Len(sep) + 1) :
                    SubSeq(s, i, i + Len(sep) - 1) = sep}
    IN  IF hits = {} THEN 0 ELSE SetMin(hits)

\* str.split(sep): left to right, non-overlapping, empty pieces kept
RECURSIVE str_split_sep(_, _)
str_split_sep(s, sep) ==
    LET i == str_find(s, sep)
    IN  IF i = 0 THEN <<s>>
        ELSE <<SubSeq(s, 1, i - 1)>>
             \o str_split_sep(SubSeq(s, i + Len(sep), Len(s)), sep)

\* str.split(): split on runs of whitespace, no empty pieces
RECURSIVE str_split(_)
str_split(s) ==
    LET keep == {i \in 1..Len(s) : s[i] \notin WhiteSpace}
    IN  IF keep = {} THEN <<>>
        ELSE LET b == SetMin(keep)
                 ws == {i \in b..Len(s) : s[i] \in WhiteSpace}
                 e == IF ws = {} THEN Len(s) + 1 ELSE SetMin(ws)
             IN  <<SubSeq(s, b, e - 1)>> \o str_split(SubSeq(s, e, Len(s)))

\* sep.join(parts)
RECURSIVE str_join(_, _)
str_join(parts, sep) ==
    IF parts = <<>> THEN <<>>
    ELSE IF Len(parts) = 1 THEN parts[1]
    ELSE parts[1] \o sep \o str_join(Tail(parts), sep)

\* str(n) for n >= 0
RECURSIVE str_of_int(_)
str_of_int(n) ==
    IF n < 10 THEN <<Digits[n + 1]>>
    ELSE str_of_int(n \div 10) \o <<Digits[(n % 10) + 1]>>

\* s[:n]
str_take(s, n) == SubSeq(s, 1, IF Len(s) < n THEN Len(s) ELSE n)

\* Word sets that keep the case
word_set_keeping_case(s) == Range(str_split(s))

\* set(s.lower().split())
word_set(s) == Range(str_split(str_lower(s)))

-----------------------------------------------------------------------------
(* backend/mock_rag_pipeline.py                                             *)

None == [status |-> "None"]

\* relevant_docs[:3]
TopN == 3

\* doc["page_content"][:100]
FallbackLen == 100

NoDocumentsAnswer == <<"B","a","s","e","d"," ","o","n"," ","t","h","e"," ","p","r","o","v","i","d","e","d"," ","d","o","c","u","m","e","n","t","s",","," ","I"," ","c","a","n","n","o","t"," ","a","n","s","w","e","r"," ","t","h","i","s"," ","q","u","e","s","t","i","o","n"," ","a","s"," ","n","o"," ","d","o","c","u","m","e","n","t","s"," ","h","a","v","e"," ","b","e","e","n"," ","p","r","o","c","e","s","s","e","d"," ","y","e","t",".">>

CannotFindAnswer == <<"B","a","s","e","d"," ","o","n"," ","t","h","e"," ","p","r","o","v","i","d","e","d"," ","d","o","c","u","m","e","n","t","s",","," ","I"," ","c","a","n","n","o","t"," ","f","i","n","d"," ","s","p","e","c","i","f","i","c"," ","i","n","f","o","r","m","a","t","i","o","n"," ","t","o"," ","a","n","s","w","e","r"," ","t","h","i","s"," ","q","u","e","s","t","i","o","n",".">>

\* the loop of mock_get_text_chunks over enumerate(paragraphs), from index i
RECURSIVE chunk_paragraphs(_, _, _)
chunk_paragraphs(paragraphs, i, source_name) ==
    IF i > Len(paragraphs) THEN <<>>
    ELSE (IF str_strip(paragraphs[i]) # <<>>
          THEN <<[page_content |-> str_strip(paragraphs[i]),
                  metadata |-> [source |-> source_name,
                                title |-> source_name,
                                position |-> i]]>>
          ELSE <<>>)
         \o chunk_paragraphs(paragraphs, i + 1, source_name)

\* An upload that appends to the stored chunks
store_chunks_appending(old_documents, chunks) == old_documents \o chunks

\* mock_documents = chunks: the new value of the global, given its old one
store_chunks(old_documents, chunks) == chunks

\* the value mock_get_text_chunks returns (and stores in mock_documents)
mock_get_text_chunks(text_content, source_name) ==
    chunk_paragraphs(str_split_sep(text_content, <<"\n", "\n">>), 1, source_name)

mock_get_vectorstore(documents) ==
    [status |-> "created", documents |-> Len(documents)]

mock_configure_retriever_and_reranker(vs) == [status |-> "configured"]

\* the keyword filter of mock_get_answer, before the [:3] cut
mock_matching_docs(query, documents) ==
    LET query_words == word_set(query)
    IN  SelectSeq(documents,
                  LAMBDA doc : query_words \cap word_set(doc.page_content) # {})

\* A cut that keeps the last matches instead of the first
mock_relevant_docs_keeping_last(query, documents) ==
    LET matching == mock_matching_docs(query, documents)
    IN  SubSeq(matching,
               IF Len(matching) > TopN THEN Len(matching) - TopN + 1 ELSE 1,
               Len(matching))

\* relevant_docs after the [:3] cut
mock_relevant_docs(query, documents) ==
    str_take(mock_matching_docs(query, documents), TopN)

\* one entry of answer_parts, i counted from 1
mock_answer_part(doc, i) ==
    LET sentences == str_split_sep(doc.page_content, <<".">>)
        relevant_sentence == IF sentences # <<>> THEN sentences[1]
                             ELSE str_take(doc.page_content, FallbackLen)
    IN  str_strip(relevant_sentence) \o <<" ", "[">> \o str_of_int(i) \o <<"]">>

\* One refusal sentence for both "no documents" and "no match"
mock_answer_text_one_refusal(relevant_docs) ==
    IF relevant_docs = <<>> THEN NoDocumentsAnswer
    ELSE str_join([i \in 1..Len(relevant_docs) |->
                      mock_answer_part(relevant_docs[i], i)], <<".", " ">>)
         \o <<".">>

\* answer: the refusal sentence, or the joined answer_parts
mock_answer_text(relevant_docs) ==
    IF relevant_docs = <<>> THEN CannotFindAnswer
    ELSE str_join([i \in 1..Len(relevant_docs) |->
                      mock_answer_part(relevant_docs[i], i)], <<".", " ">>)
         \o <<".">>

RECURSIVE sum_words(_)
sum_words(docs) ==
    IF docs = <<>> THEN 0
    ELSE Len(str_split(docs[1].page_content)) + sum_words(Tail(docs))

\* token_usage of the main return of mock_get_answer
mock_token_usage(context_tokens, query_tokens, output_tokens) ==
    [context_tokens |-> context_tokens,
     query_tokens |-> query_tokens,
     prompt_tokens |-> context_tokens + query_tokens,
     output_tokens |-> output_tokens,
     total_llm_tokens |-> context_tokens + query_tokens + output_tokens]

\* An early return that counts the query into the prompt
mock_empty_token_usage_counting_query(query) ==
    [context_tokens |-> 0,
     query_tokens |-> Len(str_split(query)),
     prompt_tokens |-> Len(str_split(query)),
     output_tokens |-> 0,
     total_llm_tokens |-> Len(str_split(query))]

\* token_usage of the early return of mock_get_answer (no documents)
mock_empty_token_usage(query) ==
    [context_tokens |-> 0,
     query_tokens |-> Len(str_split(query)),
     prompt_tokens |-> 0,
     output_tokens |-> 0,
     total_llm_tokens |-> 0]

\* cost_breakdown of mock_get_answer; costs in units of 0.0001 / 1000
mock_cost_breakdown(context_tokens, query_tokens, output_tokens) ==
    [embedding_tokens |-> context_tokens,
     llm_input_tokens |-> context_tokens + query_tokens,
     llm_output_tokens |-> output_tokens,
     embedding_cost |-> context_tokens,
     llm_input_cost |-> context_tokens + query_tokens,
     llm_output_cost |-> output_tokens,
     total_cost |-> context_tokens * 2 + query_tokens + output_tokens]

\* An answer that keeps only the relevant chunks in the global
mock_documents_cut_to_relevant(query, documents) ==
    mock_relevant_docs(query, documents)

\* mock_documents when mock_get_answer has returned: the function declares
\* the global and only reads it
mock_documents_after_answer(query, documents) == documents

\* the value mock_get_answer returns, reading the global mock_documents
\* (timing is wall-clock time and is left out)
mock_get_answer(query, documents) ==
    IF documents = <<>>
    THEN [answer |-> NoDocumentsAnswer,
          sources |-> <<>>,
          cost_breakdown |-> [embedding_tokens |-> 0, llm_input_tokens |-> 0,
                              llm_output_tokens |-> 0, embedding_cost |-> 0,
                              llm_input_cost |-> 0, llm_output_cost |-> 0,
                              total_cost |-> 0],
          token_usage |-> mock_empty_token_usage(query)]
    ELSE LET relevant_docs == mock_relevant_docs(query, documents)
             answer == mock_answer_text(relevant_docs)
             context_tokens == sum_words(relevant_docs)
             query_tokens == Len(str_split(query))
             output_tokens == Len(str_split(answer))
         IN  [answer |-> answer,
              sources |-> relevant_docs,
              cost_breakdown |->
                  mock_cost_breakdown(context_tokens, query_tokens, output_tokens),
              token_usage |->
                  mock_token_usage(context_tokens, query_tokens, output_tokens)]

-----------------------------------------------------------------------------
(* backend/rag_pipeline.py.  The embedding service, the vector index, the   *)
(* reranker, the LLM and the text splitter are external: what they return   *)
(* is an input of the model, chosen from small pools.                       *)

\* count_tokens falls back to len(text) // 4
CharsPerToken == 4

\* count_tokens on a text of the given length: the fallback estimate (the
\* tiktoken encoding is a library table and is not modelled)
count_tokens_len(n) == n \div CharsPerToken

count_tokens(text) == count_tokens_len(Len(text))

\* The rates of estimate_costs per 1000 tokens, in units of 10^-7
GeminiEmbeddingRate == 125

GroqInputRate == 1000

GroqOutputRate == 1000

\* round(x, 6) keeps 6 decimals: 10^4 units of 10^-10 per unit of 10^-6
CostScale == 10000

\* A rounding that truncates
round6_truncating(x) == {x \div CostScale}

\* round(x, 6) of a cost of x units of 10^-10, in units of 10^-6: the set of
\* values it can return.  round() rounds the double nearest to the cost; at
\* an exact decimal tie that double lies on either side of the tie.
round6(x) ==
    LET q == x \div CostScale
        r == x % CostScale
    IN  IF 2 * r < CostScale THEN {q}
        ELSE IF 2 * r > CostScale THEN {q + 1}
        ELSE {q, q + 1}

\* The cost_breakdown dicts estimate_costs can return; costs in units of 10^-6
estimate_costs(embedding_tokens, llm_input_tokens, llm_output_tokens) ==
    LET embedding_cost == embedding_tokens * GeminiEmbeddingRate
        llm_input_cost == llm_input_tokens * GroqInputRate
        llm_output_cost == llm_output_tokens * GroqOutputRate
        total_cost == embedding_cost + llm_input_cost + llm_output_cost
    IN  {[embedding_tokens |-> embedding_tokens,
          llm_input_tokens |-> llm_input_tokens,
          llm_output_tokens |-> llm_output_tokens,
          embedding_cost |-> ec,
          llm_input_cost |-> ic,
          llm_output_cost |-> oc,
          total_cost |-> tc] :
             ec \in round6(embedding_cost), ic \in round6(llm_input_cost),
             oc \in round6(llm_output_cost), tc \in round6(total_cost)}

\* get_text_chunks on a text shorter than chunk_size: the splitter returns
\* the stripped text as one chunk
get_text_chunks(text_content, source_name) ==
    <<[page_content |-> str_strip(text_content),
       metadata |-> [source |-> source_name, title |-> source_name,
                     position |-> 1]]>>

\* The handle get_vectorstore returns: a new object at every call
get_vectorstore(documents, id) ==
    [status |-> "PineconeVectorStore", id |-> id, documents |-> Len(documents)]

\* The handle configure_retriever_and_reranker returns
configure_retriever_and_reranker(vs) ==
    [status |-> "ContextualCompressionRetriever", vectorstore |-> vs.id]

\* CohereRerank(top_n=3)
RerankTopN == 3

\* len(prompt_template) without its two placeholders
PromptTemplateLen == 874

DocumentTag == <<"[","D","O","C","U","M","E","N","T"," ">>

\* format_docs
format_docs(docs) ==
    str_join([i \in 1..Len(docs) |->
                 DocumentTag \o str_of_int(i) \o <<"]", " ">>
                 \o docs[i].page_content], <<"\n", "\n">>)

RECURSIVE sum_tokens(_)
sum_tokens(docs) ==
    IF docs = <<>> THEN 0
    ELSE count_tokens(docs[1].page_content) + sum_tokens(Tail(docs))

\* A total computed as the mock pipeline computes it
token_usage_from_context(context_tokens, query_tokens, prompt_tokens, output_tokens) ==
    [context_tokens |-> context_tokens,
     query_tokens |-> query_tokens,
     prompt_tokens |-> prompt_tokens,
     output_tokens |-> output_tokens,
     total_llm_tokens |-> context_tokens + query_tokens + output_tokens]

\* token_usage of get_answer
token_usage(context_tokens, query_tokens, prompt_tokens, output_tokens) ==
    [context_tokens |-> context_tokens,
     query_tokens |-> query_tokens,
     prompt_tokens |-> prompt_tokens,
     output_tokens |-> output_tokens,
     total_llm_tokens |-> prompt_tokens + output_tokens]

\* The dicts get_answer can return when the retriever returned
\* source_documents to it and the LLM answered response_content
get_answer(query, source_documents, response_content) ==
    LET formatted_context == format_docs(source_documents)
        context_tokens == count_tokens(formatted_context)
        query_tokens == count_tokens(query)
        prompt_tokens == count_tokens_len(PromptTemplateLen
                             + Len(formatted_context) + Len(query))
        output_tokens == count_tokens(response_content)
        embedding_tokens == sum_tokens(source_documents)
    IN  {[answer |-> response_content,
          sources |-> source_documents,
          cost_breakdown |-> cost_breakdown,
          token_usage |-> token_usage(context_tokens, query_tokens,
                                      prompt_tokens, output_tokens)] :
            cost_breakdown \in
                estimate_costs(embedding_tokens, prompt_tokens, output_tokens)}

-----------------------------------------------------------------------------
(* The inputs: request bodies and what the external services return.        *)

\* The most paragraphs of a text handed to the pipeline directly
MaxParas == 4

\* The most uploads indexed in one run
MaxUploads == 2

\* The largest embedding token count handed to estimate_costs
MaxEmbTokens == 40

\* The largest LLM token count handed to estimate_costs
MaxLlmTokens == 12

ParaPool == {<<>>, <<" ">>, <<"a">>, <<"A", " ", "b", ".">>,
             <<"\n", "c", " ", "D">>}

GenTexts(n) ==
    {str_join(ps, <<"\n", "\n">>) :
        ps \in UNION {[1..k -> ParaPool] : k \in 1..n}}

ExampleText == <<"C","a","t","s"," ","a","r","e"," ","m","a","m","m","a","l","s",".","\n","\n","D","o","g","s"," ","a","r","e"," ","l","o","y","a","l",".">>

ExampleQuery == <<"A","r","e"," ","d","o","g","s"," ","l","o","y","a","l","?">>

\* One paragraph of FallbackLen + 1 characters without a '.'
LongText == [i \in 1..(FallbackLen + 1) |-> IF i % 5 = 0 THEN " " ELSE "a"]

QueryPool == {<<>>, <<" ">>, <<"a">>, <<"B">>, <<"b", ".", " ", "z">>,
              <<"d", " ", "C">>, <<"z">>, <<"a", "a", "a", "a">>, ExampleQuery}

\* The texts and queries sent over HTTP: the real pipeline hands its text to
\* external services, so two texts (one blank) stand for all
MockUploadTexts ==
    {<<" ", "\n">>, <<"a">>, ExampleText, LongText,
     <<"\n", "\n", "a", "\n", "\n", " ", "\n", "\n", "A", " ", "b", ".">>,
     <<"A", " ", "b", ".", "\n", "\n", "\n", "c", " ", "D">>}

UploadTexts == IF DEMO_MODE THEN MockUploadTexts ELSE {<<" ">>, <<"a">>}

Queries == IF DEMO_MODE THEN QueryPool ELSE {<<"a">>, ExampleQuery}

DirectInput == <<"D","i","r","e","c","t"," ","I","n","p","u","t">>

TxtName == <<"a",".","t","x","t">>

PdfName == <<"a",".","p","d","f">>

PngName == <<"a",".","p","n","g">>

FileNames == {TxtName, PdfName, PngName}

\* An uploaded file: bytes that decode (or parse as a PDF) to text, or not
FileContents ==
    {[readable |-> TRUE, text |-> t] : t \in UploadTexts}
    \cup {[readable |-> FALSE, text |-> <<>>]}

\* What the external index holds, and what the retriever can return: up to
\* RerankTopN distinct documents in any order
RealDocs ==
    {[page_content |-> <<"a">>,
      metadata |-> [source |-> TxtName, title |-> TxtName, position |-> 1]],
     [page_content |-> <<"A", " ", "b", ".">>,
      metadata |-> [source |-> TxtName, title |-> TxtName, position |-> 2]]}

Retrievals ==
    {r \in UNION {[1..n -> RealDocs] : n \in 0..RerankTopN} :
        \A i, j \in 1..Len(r) : i # j => r[i] # r[j]}

LLMResponses == {<<"a", " ", "[", "1", "]", ".">>, <<"n", "o">>}

-----------------------------------------------------------------------------
(* backend/main.py                                                          *)

NoResult == [kind |-> "none"]

NoResponse ==
    [request |-> [op |-> "none"], status |-> 0, detail |-> "",
     called |-> "none", result |-> NoResult]

\* str.endswith
str_endswith(s, suffix) ==
    /\ Len(s) >= Len(suffix)
    /\ SubSeq(s, Len(s) - Len(suffix) + 1, Len(s)) = suffix

\* The response of a handler: a return is status 200, an HTTPException its
\* status_code and detail; called names the pipeline function reached
Reply(req, status, detail, called, result) ==
    response' = [request |-> req, status |-> status, detail |-> detail,
                 called |-> called, result |-> result]

\* The body shared by upload_document and upload_text: chunk, index and
\* configure the retriever, each global assigned as its call returns
index_content(req, content, source_name) ==
    IF DEMO_MODE
    THEN LET documents == mock_get_text_chunks(content, source_name)
             vs == mock_get_vectorstore(documents)
         IN  /\ upload_seq < MaxUploads
             /\ upload_seq' = upload_seq + 1
             /\ mock_documents' = store_chunks(mock_documents, documents)
             /\ mock_processed' = TRUE
             /\ vectorstore' = vs
             /\ retriever' = mock_configure_retriever_and_reranker(vs)
             /\ last_upload' = [text |-> content, source_name |-> source_name,
                                retriever |-> retriever']
             /\ Reply(req, 200, "Successfully processed and indexed (Demo Mode)",
                      "mock_get_text_chunks", NoResult)
             /\ UNCHANGED llm_context
    ELSE LET documents == get_text_chunks(content, source_name)
             vs == get_vectorstore(documents, upload_seq + 1)
         IN  \/ \* get_text_chunks or get_vectorstore raises
                /\ Reply(req, 500, "upstream error", "get_text_chunks", NoResult)
                /\ UNCHANGED <<retriever, vectorstore, mock_documents,
                               mock_processed, upload_seq, llm_context,
                               last_upload>>
             \/ \* configure_retriever_and_reranker raises
                /\ upload_seq < MaxUploads
                /\ upload_seq' = upload_seq + 1
                /\ vectorstore' = vs
                /\ Reply(req, 500, "upstream error", "get_text_chunks", NoResult)
                /\ UNCHANGED <<retriever, mock_documents, mock_processed,
                               llm_context, last_upload>>
             \/ /\ upload_seq < MaxUploads
                /\ upload_seq' = upload_seq + 1
                /\ vectorstore' = vs
                /\ retriever' = configure_retriever_and_reranker(vs)
                /\ last_upload' = [text |-> content, source_name |-> source_name,
                                   retriever |-> retriever']
                /\ Reply(req, 200, "Successfully processed and indexed",
                         "get_text_chunks", NoResult)
                /\ UNCHANGED <<mock_documents, mock_processed, llm_context>>

\* extract_text_from_pdf of a readable one-page PDF
extract_text_from_pdf(file_content) == str_strip(file_content.text \o <<"\n">>)

Unchanged_pipeline ==
    UNCHANGED <<retriever, vectorstore, mock_documents, mock_processed,
                upload_seq, llm_context, last_upload>>

\* POST /upload
upload_document(filename, file) ==
    LET req == [op |-> "upload", filename |-> filename, file |-> file]
        is_pdf == str_endswith(filename, <<".", "p", "d", "f">>)
        is_txt == str_endswith(filename, <<".", "t", "x", "t">>)
        content == IF is_pdf THEN extract_text_from_pdf(file) ELSE file.text
    IN  /\ pc = "serve"
        /\ UNCHANGED <<DEMO_MODE, pc, in_text, in_query, in_tokens>>
        /\ IF ~(is_txt \/ is_pdf)
           THEN /\ Reply(req, 400, "Only .txt and .pdf files are supported.",
                         "none", NoResult)
                /\ Unchanged_pipeline
           ELSE IF ~file.readable
           THEN \* UnicodeDecodeError, or the HTTPException(400) of
                \* extract_text_from_pdf, caught by except Exception
                /\ Reply(req, 500,
                         IF is_pdf THEN "400: Error reading PDF"
                         ELSE "UnicodeDecodeError", "none", NoResult)
                /\ Unchanged_pipeline
           ELSE IF str_strip(content) = <<>>
           THEN \* the HTTPException(400) is raised inside the try block
                \* and caught by except Exception
                /\ Reply(req, 500, "400: No text content found in the file.",
                         "none", NoResult)
                /\ Unchanged_pipeline
           ELSE index_content(req, content, filename)

\* POST /upload-text
upload_text(text, source_name) ==
    LET req == [op |-> "upload-text", text |-> text, source_name |-> source_name]
    IN  /\ pc = "serve"
        /\ UNCHANGED <<DEMO_MODE, pc, in_text, in_query, in_tokens>>
        /\ IF str_strip(text) = <<>>
           THEN /\ Reply(req, 400, "Text content cannot be empty.", "none",
                         NoResult)
                /\ Unchanged_pipeline
           ELSE index_content(req, text, source_name)

\* A guard that tests the other global slot
no_retriever_tests_vectorstore == vectorstore = None

\* if retriever is None
no_retriever == retriever = None

\* POST /query
handle_query(query) ==
    LET req == [op |-> "query", query |-> query]
    IN  /\ pc = "serve"
        /\ UNCHANGED <<DEMO_MODE, pc, in_text, in_query, in_tokens, retriever,
                       vectorstore, mock_processed, upload_seq, last_upload>>
        /\ mock_documents' =
              IF ~no_retriever /\ DEMO_MODE
              THEN mock_documents_after_answer(query, mock_documents)
              ELSE mock_documents
        /\ IF no_retriever
           THEN /\ Reply(req, 400,
                         "No document has been uploaded and processed yet.",
                         "none", NoResult)
                /\ UNCHANGED llm_context
           ELSE IF DEMO_MODE
           THEN /\ Reply(req, 200, "", "mock_get_answer",
                         mock_get_answer(query, mock_documents))
                /\ UNCHANGED llm_context
           ELSE \/ \* the retriever or the LLM raises
                   /\ Reply(req, 500, "upstream error", "get_answer", NoResult)
                   /\ UNCHANGED llm_context
                \/ \E source_documents \in Retrievals, chain_documents \in Retrievals,
                      response_content \in LLMResponses :
                     \E result \in get_answer(query, source_documents,
                                              response_content) :
                        /\ Reply(req, 200, "", "get_answer", result)
                        /\ llm_context' = chain_documents

\* GET /
read_root ==
    /\ pc = "serve"
    /\ Reply([op |-> "root"], 200,
             IF DEMO_MODE THEN "Backend is running - Demo Mode - No API keys required!"
             ELSE "Backend is running - Production Mode", "none", NoResult)
    /\ UNCHANGED <<DEMO_MODE, pc, in_text, in_query, in_tokens>>
    /\ Unchanged_pipeline

UploadDocument ==
    \E filename \in FileNames, file \in FileContents : upload_document(filename, file)

UploadText == \E text \in UploadTexts : upload_text(text, DirectInput)

HandleQuery == \E query \in Queries : handle_query(query)

ReadRoot == read_root

\* The state when the modules have been imported
Init ==
    /\ DEMO_MODE \in BOOLEAN
    /\ retriever = None
    /\ vectorstore = None
    /\ mock_documents = <<>>
    /\ mock_processed = FALSE
    /\ upload_seq = 0
    /\ response = NoResponse
    /\ llm_context = <<>>
    /\ last_upload = None
    /\ pc = "serve"
    /\ in_text = <<>>
    /\ in_query = <<>>
    /\ in_tokens = <<0, 0, 0>>

Next == UploadDocument \/ UploadText \/ HandleQuery \/ ReadRoot

\* The HTTP service: requests in any order
Spec == Init /\ [][Next]_vars

-----------------------------------------------------------------------------
(* The pipeline functions called directly, on inputs drawn at the start.    *)

CallResult(called, result) ==
    response' = [request |-> [op |-> "call"], status |-> 0, detail |-> "",
                 called |-> called, result |-> result]

\* mock_get_text_chunks(in_text, "Direct Input")
CallMockGetTextChunks ==
    /\ pc = "start"
    /\ DEMO_MODE
    /\ mock_documents' = store_chunks(mock_documents,
                                      mock_get_text_chunks(in_text, DirectInput))
    /\ mock_processed' = TRUE
    /\ CallResult("mock_get_text_chunks", [chunks |-> mock_documents'])
    /\ pc' = "chunked"
    /\ UNCHANGED <<DEMO_MODE, retriever, vectorstore, upload_seq, llm_context,
                   last_upload, in_text, in_query, in_tokens>>

\* mock_get_answer(in_query, retriever), before or after the chunking
CallMockGetAnswer ==
    /\ pc \in {"start", "chunked"}
    /\ DEMO_MODE
    /\ CallResult("mock_get_answer", mock_get_answer(in_query, mock_documents))
    /\ mock_documents' = mock_documents_after_answer(in_query, mock_documents)
    /\ pc' = "answered"
    /\ UNCHANGED <<DEMO_MODE, retriever, vectorstore, mock_processed,
                   upload_seq, llm_context, last_upload, in_text, in_query,
                   in_tokens>>

\* get_answer(in_query, retriever)
CallGetAnswer ==
    /\ pc = "start"
    /\ ~DEMO_MODE
    /\ \E source_documents \in Retrievals, chain_documents \in Retrievals,
          response_content \in LLMResponses :
         \E result \in get_answer(in_query, source_documents, response_content) :
            /\ CallResult("get_answer", result)
            /\ llm_context' = chain_documents
    /\ pc' = "answered"
    /\ UNCHANGED <<DEMO_MODE, retriever, vectorstore, mock_documents,
                   mock_processed, upload_seq, last_upload, in_text, in_query,
                   in_tokens>>

\* estimate_costs(in_tokens)
CallEstimateCosts ==
    /\ pc = "start"
    /\ \E cost_breakdown \in estimate_costs(in_tokens[1], in_tokens[2], in_tokens[3]) :
          CallResult("estimate_costs", cost_breakdown)
    /\ pc' = "costed"
    /\ UNCHANGED <<DEMO_MODE, retriever, vectorstore, mock_documents,
                   mock_processed, upload_seq, llm_context, last_upload,
                   in_text, in_query, in_tokens>>

InitLib ==
    /\ DEMO_MODE \in BOOLEAN
    /\ retriever = None
    /\ vectorstore = None
    /\ mock_documents = <<>>
    /\ mock_processed = FALSE
    /\ upload_seq = 0
    /\ response = NoResponse
    /\ llm_context = <<>>
    /\ last_upload = None
    /\ pc = "start"
    /\ in_text \in (IF DEMO_MODE THEN GenTexts(MaxParas) ELSE {<<>>})
    /\ in_query \in Queries
    /\ in_tokens = <<0, 0, 0>>

NextLib == CallMockGetTextChunks \/ CallMockGetAnswer \/ CallGetAnswer

\* The two pipelines called directly
SpecLib == InitLib /\ [][NextLib]_vars

InitCost ==
    /\ DEMO_MODE = FALSE
    /\ retriever = None
    /\ vectorstore = None
    /\ mock_documents = <<>>
    /\ mock_processed = FALSE
    /\ upload_seq = 0
    /\ response = NoResponse
    /\ llm_context = <<>>
    /\ last_upload = None
    /\ pc = "start"
    /\ in_text = <<>>
    /\ in_query = <<>>
    /\ in_tokens \in (0..MaxEmbTokens) \X (0..MaxLlmTokens) \X (0..MaxLlmTokens)

NextCost == CallEstimateCosts

\* estimate_costs called directly
SpecCost == InitCost /\ [][NextCost]_vars

-----------------------------------------------------------------------------
(* The claims.                                                              *)

IsQueryResponse == response.request.op = "query"

NoUploadMessage == "No document has been uploaded and processed yet."

\* C1: a /query answered while no upload has succeeded (retriever is None)
\* gets status 400 with the "No document has been uploaded and processed
\* yet." detail and reaches no answer function, whatever uploads failed
\* before it.
C1_NoUploadQuery ==
    /\ (last_upload = None) <=> (retriever = None)
    /\ (IsQueryResponse /\ last_upload = None) =>
          /\ response.status = 400
          /\ response.detail = NoUploadMessage
          /\ response.called = "none"
          /\ response.result = NoResult

\* C1 happens: a query is refused after an upload failed half way, leaving
\* the vectorstore slot set
C1_Witness ==
    /\ IsQueryResponse
    /\ last_upload = None
    /\ vectorstore # None
    /\ response.status = 400

\* C2: in demo mode the stored chunks are those of the most recent successful
\* upload and nothing else (none of an earlier upload); before any upload
\* the collection is empty and the retriever unset; a query's sources are
\* taken from that collection.
C2_ReplacedWholesale ==
    DEMO_MODE =>
       /\ last_upload = None =>
             /\ mock_documents = <<>>
             /\ ~mock_processed
             /\ retriever = None
             /\ vectorstore = None
       /\ last_upload # None =>
             /\ mock_documents =
                   mock_get_text_chunks(last_upload.text, last_upload.source_name)
             /\ vectorstore.documents = Len(mock_documents)
             /\ retriever # None
       /\ (IsQueryResponse /\ response.status = 200) =>
             Range(response.result.sources) \subseteq Range(mock_documents)

\* C2 happens: a second upload has replaced the first and a query found
\* chunks of it
C2_Witness ==
    /\ DEMO_MODE
    /\ upload_seq >= 2
    /\ IsQueryResponse
    /\ response.status = 200
    /\ response.result.sources # <<>>
    /\ last_upload.text = ExampleText

IsAnswerResult == response.called \in {"mock_get_answer", "get_answer"}
                  /\ response.result # NoResult

\* C3: every AnswerResult of either pipeline has
\* total_llm_tokens = prompt_tokens + output_tokens.
C3_TokenInvariant ==
    IsAnswerResult =>
       response.result.token_usage.total_llm_tokens =
          response.result.token_usage.prompt_tokens
          + response.result.token_usage.output_tokens

\* C3 happens: get_answer returned with sources and a non-empty answer
C3_Witness ==
    /\ response.called = "get_answer"
    /\ response.result # NoResult
    /\ response.result.sources # <<>>
    /\ response.result.token_usage.output_tokens > 0
    /\ response.result.token_usage.prompt_tokens
          > response.result.token_usage.context_tokens
            + response.result.token_usage.query_tokens

IsCostResult == response.called = "estimate_costs"

Abs(x) == IF x < 0 THEN -x ELSE x

\* x units of 10^-10 rounded to r units of 10^-6: r is a nearest one
IsRounded6(x, r) == 2 * Abs(r * CostScale - x) <= CostScale

SumOfCostFields ==
    response.result.embedding_cost + response.result.llm_input_cost
    + response.result.llm_output_cost

\* C4 as claimed: the total_cost estimate_costs returns equals the sum of
\* the embedding_cost, llm_input_cost and llm_output_cost it returns.
C4_TotalIsSumOfFields ==
    IsCostResult => response.result.total_cost = SumOfCostFields

\* C4 as amended: each of the four cost fields is its exact cost rounded to
\* 6 decimals, total_cost being the rounded sum of the three exact costs;
\* it differs from the sum of the three returned fields by at most 0.000002.
C4_TotalIsRoundedExactSum ==
    IsCostResult =>
       LET embedding_cost == in_tokens[1] * GeminiEmbeddingRate
           llm_input_cost == in_tokens[2] * GroqInputRate
           llm_output_cost == in_tokens[3] * GroqOutputRate
       IN  /\ response.result.embedding_tokens = in_tokens[1]
           /\ response.result.llm_input_tokens = in_tokens[2]
           /\ response.result.llm_output_tokens = in_tokens[3]
           /\ IsRounded6(embedding_cost, response.result.embedding_cost)
           /\ IsRounded6(llm_input_cost, response.result.llm_input_cost)
           /\ IsRounded6(llm_output_cost, response.result.llm_output_cost)
           /\ IsRounded6(embedding_cost + llm_input_cost + llm_output_cost,
                         response.result.total_cost)
           /\ Abs(response.result.total_cost - SumOfCostFields) <= 2

\* C4 happens: estimate_costs(0, 4, 4) returns three zero cost fields and a
\* total_cost of 0.000001
C4_Witness ==
    /\ IsCostResult
    /\ in_tokens = <<0, 4, 4>>
    /\ SumOfCostFields = 0
    /\ response.result.total_cost = 1

IsExampleRun ==
    /\ DEMO_MODE
    /\ last_upload # None
    /\ last_upload.text = ExampleText
    /\ IsQueryResponse
    /\ response.request.query = ExampleQuery

DogsChunk == <<"D","o","g","s"," ","a","r","e"," ","l","o","y","a","l",".">>

CatsChunk == <<"C","a","t","s"," ","a","r","e"," ","m","a","m","m","a","l","s",".">>

\* C5 as claimed: uploading "Cats are mammals.\n\nDogs are loyal." and
\* asking "Are dogs loyal?" gives one source, "Dogs are loyal.", and the
\* answer "Dogs are loyal [1].".
C5_ExampleOneSource ==
    IsExampleRun =>
       /\ response.status = 200
       /\ Len(response.result.sources) = 1
       /\ response.result.sources[1].page_content = DogsChunk
       /\ response.result.answer = <<"D","o","g","s"," ","a","r","e"," ","l","o","y","a","l"," ","[","1","]",".">>

\* C5 as amended: the same upload and query give two sources, "Cats are
\* mammals." and "Dogs are loyal." (both share the word "are" with the
\* query), and the answer "Cats are mammals [1]. Dogs are loyal [2].".
C5_ExampleTwoSources ==
    IsExampleRun =>
       /\ response.status = 200
       /\ Len(response.result.sources) = 2
       /\ response.result.sources[1].page_content = CatsChunk
       /\ response.result.sources[1].metadata.position = 1
       /\ response.result.sources[2].page_content = DogsChunk
       /\ response.result.sources[2].metadata.position = 2
       /\ response.result.answer =
             <<"C","a","t","s"," ","a","r","e"," ","m","a","m","m","a","l","s"," ","[","1","]","."," ","D","o","g","s"," ","a","r","e"," ","l","o","y","a","l"," ","[","2","]",".">>

\* C5 happens: the example text is uploaded and the example query answered
C5_Witness == IsExampleRun /\ response.status = 200

IsMockAnswerCall == response.called = "mock_get_answer" /\ pc = "answered"

ZeroCostBreakdown ==
    [embedding_tokens |-> 0, llm_input_tokens |-> 0, llm_output_tokens |-> 0,
     embedding_cost |-> 0, llm_input_cost |-> 0, llm_output_cost |-> 0,
     total_cost |-> 0]

\* C6 as claimed: mock_get_answer with no documents stored returns the "no
\* documents have been processed yet" sentence, no sources, and every field
\* of cost_breakdown and token_usage zero.
C6_NeverIndexedAllZero ==
    (IsMockAnswerCall /\ mock_documents = <<>>) =>
       /\ response.result.answer = NoDocumentsAnswer
       /\ response.result.sources = <<>>
       /\ response.result.cost_breakdown = ZeroCostBreakdown
       /\ response.result.token_usage =
             [context_tokens |-> 0, query_tokens |-> 0, prompt_tokens |-> 0,
              output_tokens |-> 0, total_llm_tokens |-> 0]

\* C6 as amended: as claimed, but token_usage.query_tokens is the number of
\* whitespace-delimited words of the query; the other fields are zero.
C6_NeverIndexedZeroButQueryTokens ==
    (IsMockAnswerCall /\ mock_documents = <<>>) =>
       /\ response.result.answer = NoDocumentsAnswer
       /\ response.result.sources = <<>>
       /\ response.result.cost_breakdown = ZeroCostBreakdown
       /\ response.result.token_usage =
             [context_tokens |-> 0, query_tokens |-> Len(str_split(in_query)),
              prompt_tokens |-> 0, output_tokens |-> 0, total_llm_tokens |-> 0]

\* C6 happens: a two-word query is answered before anything was chunked
C6_Witness ==
    /\ IsMockAnswerCall
    /\ ~mock_processed
    /\ mock_documents = <<>>
    /\ response.result.token_usage.query_tokens = 2

\* C7 as claimed: for a text whose trimmed form is non-empty the chunks
\* carry the positions 1, 2, ..., n in order, wherever blank paragraphs lie.
C7_PositionsCountChunks ==
    (pc = "chunked" /\ str_strip(in_text) # <<>>) =>
       /\ mock_documents # <<>>
       /\ \A k \in 1..Len(mock_documents) :
             mock_documents[k].metadata.position = k

\* The indices of the stored chunks that share a lower-cased word with the
\* query
SharingChunks(query) ==
    {i \in 1..Len(mock_documents) :
        \E w \in word_set(query) : w \in word_set(mock_documents[i].page_content)}

\* The k-th smallest element of a set of numbers
KthOf(S, k) == CHOOSE i \in S : Cardinality({j \in S : j <= i}) = k

\* C8: the sources of a mock answer are the stored chunks that share a
\* lower-cased whitespace-delimited word with the query, in stored order,
\* cut to the first 3: never more than 3 and never reordered.
C8_SourcesAreFirstMatches ==
    IsMockAnswerCall =>
       LET sharing == SharingChunks(in_query)
           sources == response.result.sources
       IN  /\ Len(sources) <= 3
           /\ Len(sources) =
                 IF Cardinality(sharing) < 3 THEN Cardinality(sharing) ELSE 3
           /\ \A k \in 1..Len(sources) :
                 sources[k] = mock_documents[KthOf(sharing, k)]

\* C8 happens: four chunks share a word with the query, one of them only
\* through lower-casing, and the first three are the sources
C8_Witness ==
    /\ IsMockAnswerCall
    /\ Cardinality(SharingChunks(in_query)) = 4
    /\ Len(response.result.sources) = 3
    /\ \E i \in 1..3 :
          word_set_keeping_case(in_query)
             \cap word_set_keeping_case(response.result.sources[i].page_content) = {}

\* C9: in demo mode, with documents stored and no stored chunk sharing a word
\* with the query (an empty or blank query included), the query is answered
\* 200 with the "cannot find specific information" sentence and no sources.
C9_NoMatchIsAnAnswer ==
    (/\ DEMO_MODE
     /\ IsQueryResponse
     /\ mock_documents # <<>>
     /\ SharingChunks(response.request.query) = {}) =>
       /\ response.status = 200
       /\ response.called = "mock_get_answer"
       /\ response.result.answer = CannotFindAnswer
       /\ response.result.sources = <<>>

\* C9 happens: a blank query is answered over stored documents
C9_Witness ==
    /\ DEMO_MODE
    /\ IsQueryResponse
    /\ mock_documents # <<>>
    /\ response.request.query = <<" ">>
    /\ response.status = 200
    /\ response.result.answer = CannotFindAnswer

\* The piece of the answer the claim gives a chunk: its first sentence, or
\* its first 100 characters when it holds no '.', then " [i]"
ClaimedAnswerPart(doc, i) ==
    (IF str_find(doc.page_content, <<".">>) = 0
     THEN str_take(doc.page_content, 100)
     ELSE str_strip(SubSeq(doc.page_content, 1,
                           str_find(doc.page_content, <<".">>) - 1)))
    \o <<" ", "[">> \o str_of_int(i) \o <<"]">>

\* C10 as claimed: with k >= 1 sources the answer is the pieces of the
\* sources in order, joined with ". " and ended with "."; a source of more
\* than 100 characters without a '.' gives only its first 100 characters.
C10_AnswerFromPieces ==
    (DEMO_MODE /\ IsQueryResponse /\ response.status = 200
     /\ response.result.sources # <<>>) =>
       response.result.answer =
          str_join([i \in 1..Len(response.result.sources) |->
                       ClaimedAnswerPart(response.result.sources[i], i)],
                   <<".", " ">>) \o <<".">>

\* C11: a /query step, whether it is answered, refused for want of a
\* retriever or fails in the pipeline, leaves retriever, vectorstore,
\* mock_documents and mock_processed as they were; in demo mode the same
\* query asked again with no upload in between gets the same result.
C11_QueryMutatesNothing ==
    [][response'.request.op = "query" =>
          /\ UNCHANGED <<retriever, vectorstore, mock_documents, mock_processed>>
          /\ (DEMO_MODE /\ IsQueryResponse
              /\ response'.request.query = response.request.query) =>
                response'.result = response.result]_vars

\* C11 happens: a query failed in the pipeline with both slots set
C11_Witness ==
    /\ IsQueryResponse
    /\ response.status = 500
    /\ retriever # None
    /\ vectorstore # None

\* The last request was a /upload of a readable .txt or .pdf file whose
\* extracted text is blank
IsBlankFileUpload ==
    /\ response.request.op = "upload"
    /\ response.request.file.readable
    /\ \/ /\ str_endswith(response.request.filename, <<".", "t", "x", "t">>)
          /\ str_strip(response.request.file.text) = <<>>
       \/ /\ str_endswith(response.request.filename, <<".", "p", "d", "f">>)
          /\ str_strip(extract_text_from_pdf(response.request.file)) = <<>>

\* The last request was a /upload-text with blank text
IsBlankTextUpload ==
    /\ response.request.op = "upload-text"
    /\ str_strip(response.request.text) = <<>>

\* C12 as claimed: an upload whose content is empty or whitespace-only is
\* answered 400 with its message, never 500, on /upload ("No text content
\* found in the file.") and on /upload-text ("Text content cannot be empty.").
C12_BlankUploadIs400 ==
    /\ IsBlankFileUpload =>
          /\ response.status = 400
          /\ response.detail = "No text content found in the file."
    /\ IsBlankTextUpload =>
          /\ response.status = 400
          /\ response.detail = "Text content cannot be empty."

\* C13 as claimed: in real mode the sources of an answer are the documents,
\* in the same order, that were numbered [DOCUMENT 1..n] in the prompt the
\* LLM received, also when the retriever answers two calls differently.
C13_SourcesAreLLMContext ==
    (~DEMO_MODE /\ IsQueryResponse /\ response.status = 200) =>
       /\ response.result.sources = llm_context
       /\ format_docs(response.result.sources) = format_docs(llm_context)

\* C14 as claimed: vectorstore and retriever are both unset, or both made by
\* the same successful upload, the most recent one; a failed upload leaves
\* both as they were.
C14_SlotsArePaired ==
    \/ /\ vectorstore = None
       /\ retriever = None
       /\ last_upload = None
    \/ /\ vectorstore # None
       /\ retriever # None
       /\ last_upload # None
       /\ retriever = last_upload.retriever
       /\ IF DEMO_MODE
          THEN vectorstore =
                  mock_get_vectorstore(
                     mock_get_text_chunks(last_upload.text, last_upload.source_name))
          ELSE retriever = configure_retriever_and_reranker(vectorstore)

=============================================================================
